---- MODULE Spec2Model ----
(***************************************************************************)
(* Model of the image compression service (src/app.py): the two Flask      *)
(* handlers get_compressed_image and get_images, the helpers               *)
(* get_image_data_size and compress_image, and the parts of Python, Flask  *)
(* and Pillow whose behaviour decides what the handlers answer.            *)
(***************************************************************************)
EXTENDS Integers, Sequences, FiniteSets, TLC

(***************************************************************************)
(* Python floats.  The quality estimate of compress_image is computed in   *)
(* IEEE-754 double precision, and int() truncates the result, so a product *)
(* that is an integer in exact arithmetic may be truncated to the integer  *)
(* below.  A double is modelled exactly: a sign s, a 53-bit significand m  *)
(* and a binary exponent e, the value being s * m * 2^e.  The significand  *)
(* does not fit a machine integer of the checker, so it is kept as five    *)
(* limbs of 12 bits, most significant first.  Every operation rounds to    *)
(* nearest, ties to even, as the hardware does.  The magnitudes that occur *)
(* stay far inside the normal range, so subnormals and infinities are not  *)
(* modelled.                                                               *)
(***************************************************************************)
MantBits == 53
LimbBits == 12
Base == 2 ^ LimbBits
MantLimbs == 5

Sign(i) == IF i < 0 THEN -1 ELSE 1
Abs(i) == IF i < 0 THEN -i ELSE i

RECURSIVE NatLimbs(_)
NatLimbs(n) == IF n = 0 THEN <<>> ELSE Append(NatLimbs(n \div Base), n % Base)

RECURSIVE LimbsNat(_)
LimbsNat(l) ==
  IF l = <<>> THEN 0 ELSE Base * LimbsNat(SubSeq(l, 1, Len(l) - 1)) + l[Len(l)]

ZeroLimbs(n) == [i \in 1..n |-> 0]

IsZero(l) == \A i \in 1..Len(l) : l[i] = 0

\* l without its leading zero limbs.
StripLimbs(l) ==
  IF IsZero(l) THEN <<>>
  ELSE LET first == CHOOSE i \in 1..Len(l) :
                      l[i] # 0 /\ \A j \in 1..(i - 1) : l[j] = 0
       IN  SubSeq(l, first, Len(l))

\* l * k for a natural k < 2^18, schoolbook multiplication from the last limb.
RECURSIVE MulCarry(_, _, _)
MulCarry(l, k, carry) ==
  IF l = <<>> THEN NatLimbs(carry)
  ELSE LET t == l[Len(l)] * k + carry
       IN  Append(MulCarry(SubSeq(l, 1, Len(l) - 1), k, t \div Base), t % Base)

MulSmall(l, k) == StripLimbs(MulCarry(l, k, 0))

\* Long division of l by a natural d < 2^18: <<quotient limbs, remainder>>.
RECURSIVE DivLoop(_, _, _, _)
DivLoop(l, d, r, q) ==
  IF l = <<>> THEN <<q, r>>
  ELSE LET t == r * Base + l[1]
       IN  DivLoop(Tail(l), d, t % d, Append(q, t \div d))

\* l + 1.
RECURSIVE Incr(_)
Incr(l) ==
  IF l = <<>> THEN <<1>>
  ELSE IF l[Len(l)] < Base - 1
       THEN Append(SubSeq(l, 1, Len(l) - 1), l[Len(l)] + 1)
       ELSE Append(Incr(SubSeq(l, 1, Len(l) - 1)), 0)

\* The bits of l, most significant first.
Bits(l) ==
  [j \in 1..(LimbBits * Len(l)) |->
     (l[((j - 1) \div LimbBits) + 1]
        \div (2 ^ (LimbBits - 1 - ((j - 1) % LimbBits)))) % 2]

\* floor(l / 2^n) for 0 <= n, limb by limb.
ShiftRight(l, n) ==
  LET w    == n \div LimbBits
      k    == n % LimbBits
      kept == IF w >= Len(l) THEN <<>> ELSE SubSeq(l, 1, Len(l) - w)
  IN  [i \in 1..Len(kept) |->
         ((IF i = 1 THEN 0 ELSE kept[i - 1] % (2 ^ k)) * (2 ^ (LimbBits - k)))
         + (kept[i] \div (2 ^ k))]

FZero(s) == [s |-> s, m |-> ZeroLimbs(MantLimbs), e |-> 0]

\* The number of bits of a limb x # 0.
BitLen(x) == CHOOSE k \in 1..LimbBits : 2 ^ (k - 1) <= x /\ x < 2 ^ k

\* The limbs the quotient of a division is extended by before it is rounded.
PadLimbs == 7

\* The last MantLimbs limbs of l.
LowLimbs(l) == SubSeq(l, Len(l) - MantLimbs + 1, Len(l))

\* The significand mant of a quotient q whose last drop bits were dropped,
\* rounded to nearest with ties to even: the first dropped bit and whether
\* anything lies below it (in q, or in the remainder of the division: sticky)
\* decide.
RoundMant(mant, q, drop, sticky) ==
  LET w     == drop \div LimbBits
      k     == drop % LimbBits
      cut   == IF k > 0 THEN q[Len(q) - w] % (2 ^ k) ELSE q[Len(q) - w + 1]
      half  == IF k > 0 THEN 2 ^ (k - 1) ELSE 2 ^ (LimbBits - 1)
      below == IF k > 0 THEN Len(q) - w + 1 ELSE Len(q) - w + 2
  IN  IF /\ cut \div half = 1
         /\ \/ cut % half # 0
            \/ \E i \in below..Len(q) : q[i] # 0
            \/ sticky
            \/ mant[MantLimbs] % 2 = 1
      THEN Incr(mant) ELSE mant

\* The float of sign s, significand m and exponent e, m renormalised when the
\* rounding carried it to 2^53.
Pack(s, m, e) ==
  IF m[1] = 2 ^ (MantBits - LimbBits * (MantLimbs - 1))
  THEN [s |-> s, m |-> ShiftRight(m, 1), e |-> e + 1]
  ELSE [s |-> s, m |-> m, e |-> e]

\* The float nearest to s * q * 2^e for a quotient q # 0 of which the last
\* drop bits do not fit the significand.
RoundAt(s, q, drop, sticky, e) ==
  Pack(s, RoundMant(LowLimbs(ShiftRight(q, drop)), q, drop, sticky), e + drop)

\* The float nearest to s * q * 2^e, q given by its limbs without leading
\* zero limbs.
RoundLimbs(s, q, sticky, e) ==
  RoundAt(s, q, LimbBits * (Len(q) - 1) + BitLen(q[1]) - MantBits, sticky, e)

\* The float for the quotient and remainder qr of a long division.
RoundQuotient(s, qr, e) == RoundLimbs(s, StripLimbs(qr[1]), qr[2] # 0, e)

\* The double nearest to s * (n / d) * 2^e, n given by its limbs, ties to even:
\* the quotient is computed to more than 54 bits, its first 53 bits are kept
\* and the bits dropped, with the remainder of the division, decide the
\* rounding.
RoundDiv(s, n, d, e) ==
  IF IsZero(n) THEN FZero(s)
  ELSE RoundQuotient(s, DivLoop(n \o ZeroLimbs(PadLimbs), d, 0, <<>>),
                     e - LimbBits * PadLimbs)

\* a / b for Python ints a and b # 0 (true division).
IntTrueDiv(a, b) == RoundDiv(Sign(a) * Sign(b), NatLimbs(Abs(a)), Abs(b), 0)

\* x * i for a float x and a Python int i.
FloatMulInt(x, i) == RoundDiv(x.s * Sign(i), MulSmall(x.m, Abs(i)), 1, x.e)

\* x / i for a float x and a Python int i # 0.
FloatDivInt(x, i) == RoundDiv(x.s * Sign(i), x.m, Abs(i), x.e)

\* The number of zero bits at the end of the significand of x # 0.
TrailingZeros(x) ==
  LET b == Bits(x.m)
  IN  CHOOSE z \in 0..(Len(b) - 1) :
        b[Len(b) - z] = 1 /\ \A j \in (Len(b) - z + 1)..Len(b) : b[j] = 0

\* i / x for a Python int i and a float x # 0 whose significand, once its
\* trailing zero bits are dropped, is a natural k < 2^18: x = k * 2^j.
IntDivFloat(i, x) ==
  LET z == TrailingZeros(x)
      k == LimbsNat(ShiftRight(x.m, z))
  IN  RoundDiv(Sign(i) * x.s, NatLimbs(Abs(i)), k, -(x.e + z))

\* int(x) for a float x with |x| < 2^31: truncation toward zero.
FloatToInt(x) ==
  IF IsZero(x.m) \/ LimbBits * MantLimbs + x.e <= 0 THEN 0
  ELSE IF x.e >= 0 THEN x.s * LimbsNat(x.m) * (2 ^ x.e)
  ELSE x.s * LimbsNat(ShiftRight(x.m, -x.e))

\* float(i) for a Python int i.
IntToFloat(i) == RoundDiv(Sign(i), NatLimbs(Abs(i)), 1, 0)

\* x <= i for a float x and a Python int i (Python compares them exactly).
FloatLeInt(x, i) ==
  LET t == FloatToInt(x)
  IN  IF IsZero(x.m) THEN 0 <= i
      ELSE IF x.s = 1 THEN t < i \/ (t = i /\ IntToFloat(t) = x)
      ELSE t <= i

(***************************************************************************)
(* Strings.  A string is a sequence of pieces, each piece a run of         *)
(* characters; file names are kept one character per piece, because        *)
(* get_images looks at their case and their last characters.               *)
(***************************************************************************)
DigitChars == <<"0", "1", "2", "3", "4", "5", "6", "7", "8", "9">>

RECURSIVE Digits(_)
Digits(n) ==
  IF n < 10 THEN <<DigitChars[n + 1]>>
  ELSE Append(Digits(n \div 10), DigitChars[(n % 10) + 1])

\* str(i), as an f-string renders a Python int.
IntStr(i) == IF i < 0 THEN <<"-">> \o Digits(-i) ELSE Digits(i)

\* The bit of weight 2^(j-1) of the natural given by the limbs l.
BitAt(l, j) ==
  IF j < 1 \/ j > LimbBits * Len(l) THEN 0 ELSE Bits(l)[LimbBits * Len(l) - j + 1]

\* f'{x:.2f}' for a float x >= 0: the exact value of x, in hundredths,
\* rounded to the nearest integer with ties to even, then printed.
FormatFixed2(x) ==
  LET n    == MulSmall(x.m, 100)
      k    == -x.e
      lo   == LimbsNat(ShiftRight(n, k))
      rnd  == BitAt(n, k)
      rest == \E j \in 1..(k - 1) : BitAt(n, j) = 1
      h    == IF IsZero(x.m) THEN 0
              ELSE IF k <= 0 THEN LimbsNat(n) * (2 ^ x.e)
              ELSE IF rnd = 1 /\ (rest \/ lo % 2 = 1) THEN lo + 1 ELSE lo
  IN  Digits(h \div 100) \o <<".">> \o <<DigitChars[((h \div 10) % 10) + 1]>>
        \o <<DigitChars[(h % 10) + 1]>>

UpperChars == <<"A", "B", "C", "D", "E", "F", "G", "H", "I", "J", "K", "L", "M",
                "N", "O", "P", "Q", "R", "S", "T", "U", "V", "W", "X", "Y", "Z">>
LowerChars == <<"a", "b", "c", "d", "e", "f", "g", "h", "i", "j", "k", "l", "m",
                "n", "o", "p", "q", "r", "s", "t", "u", "v", "w", "x", "y", "z">>

LowerChar(c) ==
  IF \E i \in 1..Len(UpperChars) : UpperChars[i] = c
  THEN LowerChars[CHOOSE i \in 1..Len(UpperChars) : UpperChars[i] = c]
  ELSE c

\* str.lower()
Lower(str) == [i \in 1..Len(str) |-> LowerChar(str[i])]

\* str.endswith(suffix)
EndsWith(str, suffix) ==
  /\ Len(str) >= Len(suffix)
  /\ SubSeq(str, Len(str) - Len(suffix) + 1, Len(str)) = suffix

(***************************************************************************)
(* Query arguments.  request.args.get(key) yields None when the caller     *)
(* left the key out and the text of the value otherwise; an argument is    *)
(* absent, a text that int() rejects, or the decimal text of an integer.   *)
(***************************************************************************)
Absent == [kind |-> "absent", n |-> 0, s |-> <<>>]
Text(str) == [kind |-> "text", n |-> 0, s |-> str]
Num(i) == [kind |-> "int", n |-> i, s |-> IntStr(i)]

\* request.args.get(key, default) with an int default.
GetDefault(arg, default) == IF arg.kind = "absent" THEN Num(default) ELSE arg

\* str(e) of the exception int(arg) raises; <<>> when it raises none.
IntError(arg) ==
  IF arg.kind = "absent"
  THEN <<"int() argument must be a string, a bytes-like object or a real number, not 'NoneType'">>
  ELSE IF arg.kind = "text"
       THEN <<"invalid literal for int() with base 10: '">> \o arg.s \o <<"'">>
       ELSE <<>>

(***************************************************************************)
(* The image directory.  The directory 'images' is either missing or a     *)
(* sequence of files in the order os.listdir reports them; a file has a    *)
(* name, a length in bytes and a content: the pixel mode of the image it   *)
(* decodes to, or "corrupt" when Pillow cannot identify it.  A file of no  *)
(* bytes is never an image.                                                *)
(***************************************************************************)
ImagesDir == <<"i", "m", "a", "g", "e", "s">>

File(name, len, content) == [name |-> name, len |-> len, content |-> content]

\* os.path.join(a, b) on POSIX: b alone when it is absolute.
PathJoin(a, b) ==
  IF b # <<>> /\ b[1] = "/" THEN b
  ELSE IF a[Len(a)] = "/" THEN a \o b ELSE a \o <<"/">> \o b

\* The files of the directory that path names: a sequence of 0 or 1 file.
Lookup(fs, path) ==
  IF ~fs.present THEN <<>>
  ELSE SelectSeq(fs.files, LAMBDA f : PathJoin(ImagesDir, f.name) = path)

\* os.path.exists(path)
PathExists(fs, path) ==
  \/ Lookup(fs, path) # <<>>
  \/ fs.present /\ path \in {ImagesDir, ImagesDir \o <<"/">>}

NoBytes == [id |-> <<>>, len |-> 0, content |-> "none"]

\* The bytes open(path, 'rb').read() returns.
FileBytes(fs, path) ==
  LET f == Lookup(fs, path)[1]
  IN  [id |-> <<"file:">> \o f.name, len |-> f.len, content |-> f.content]

\* str(e) of the OSError open(path) raises; <<>> when it raises none.
OpenError(fs, path) ==
  IF Lookup(fs, path) # <<>> THEN <<>>
  ELSE IF PathExists(fs, path)
       THEN <<"[Errno 21] Is a directory: '">> \o path \o <<"'">>
       ELSE <<"[Errno 2] No such file or directory: '">> \o path \o <<"'">>

(***************************************************************************)
(* Python values a view returns, JSON documents and HTTP responses.        *)
(***************************************************************************)
NoDict == [none |-> <<>>]
PyNone == [type |-> "none", dict |-> NoDict, code |-> 0, list |-> <<>>]
PyDict(d) == [type |-> "dict", dict |-> d, code |-> 0, list |-> <<>>]
PyTuple(d, code) == [type |-> "tuple", dict |-> d, code |-> code, list |-> <<>>]
PyList(l) == [type |-> "list", dict |-> NoDict, code |-> 0, list |-> l]

JObject(d) == [kind |-> "object", obj |-> d, num |-> 0, items |-> <<>>]
JNumber(n) == [kind |-> "number", obj |-> NoDict, num |-> n, items |-> <<>>]
JArray(l) == [kind |-> "array", obj |-> NoDict, num |-> 0, items |-> l]
JNull == [kind |-> "null", obj |-> NoDict, num |-> 0, items |-> <<>>]

\* json.dumps: a dict is an object, a list and a tuple alike are arrays.
ToJson(v) ==
  IF v.type = "dict" THEN JObject(v.dict)
  ELSE IF v.type = "tuple" THEN JArray(<<JObject(v.dict), JNumber(v.code)>>)
  ELSE IF v.type = "list" THEN JArray([i \in 1..Len(v.list) |-> JObject(v.list[i])])
  ELSE JNull

NoResponse == [status |-> 0, body |-> JNull]

\* flask.jsonify(v): a response of status 200 whose body is the JSON
\* document of its one argument, whatever that argument is.
Jsonify(v) == [status |-> 200, body |-> ToJson(v)]

\* Flask's make_response for a view's return value: a (body, status) tuple
\* sets the status, a bare dict or list is sent with status 200.
MakeResponse(v) ==
  IF v.type = "tuple" THEN [status |-> v.code, body |-> JObject(v.dict)]
  ELSE Jsonify(v)

\* base64.b64encode(data).decode('utf-8'), the bytes named by their origin.
B64(data) == <<"base64(">> \o data.id \o <<")">>

(***************************************************************************)
(* The frame of one request: what Flask keeps for it (the request object,  *)
(* the response once the view has returned) and the local variables of the *)
(* view and of compress_image.  reads, resizes, encodes and passed_quality *)
(* record the library calls the request has made.                          *)
(***************************************************************************)
NoImage == [src |-> <<>>, mode |-> "none", size |-> <<0, 0>>]

NoArgs ==
  [image_name |-> Absent, target_width |-> Absent, target_height |-> Absent,
   max_size_kb |-> Absent, target_size_kb |-> Absent, quality |-> Absent]

IdleCtl ==
  [pc |-> "idle", route |-> "none", args |-> NoArgs, response |-> NoResponse,
   reads |-> 0, resizes |-> 0, encodes |-> 0, passed_quality |-> 0]

NewLocals ==
  [start_time |-> 0, end_time |-> 0, image_name |-> Absent,
   target_dimension |-> <<0, 0>>, image_path |-> <<>>, result |-> PyNone,
   max_size_kb |-> 0, image_data |-> NoBytes, image_size_kb |-> FZero(1),
   quality |-> 0, c_image_data |-> NoBytes, current_size_kb |-> FZero(1),
   resized_image |-> NoImage, compression_factor |-> FZero(1), c_quality |-> 0,
   compressed_image |-> NoBytes, compressed_image_size |-> FZero(1),
   compressed_image_base64 |-> <<>>, exc |-> <<>>,
   images |-> <<>>, listing |-> <<>>, filename |-> <<>>, size_kb |-> 0]

FrameOf(c, l) ==
  [pc |-> c.pc, route |-> c.route, args |-> c.args, response |-> c.response,
   reads |-> c.reads, resizes |-> c.resizes, encodes |-> c.encodes,
   passed_quality |-> c.passed_quality,
   start_time |-> l.start_time, end_time |-> l.end_time,
   image_name |-> l.image_name, target_dimension |-> l.target_dimension,
   image_path |-> l.image_path, result |-> l.result,
   max_size_kb |-> l.max_size_kb, image_data |-> l.image_data,
   image_size_kb |-> l.image_size_kb, quality |-> l.quality,
   c_image_data |-> l.c_image_data, current_size_kb |-> l.current_size_kb,
   resized_image |-> l.resized_image,
   compression_factor |-> l.compression_factor, c_quality |-> l.c_quality,
   compressed_image |-> l.compressed_image,
   compressed_image_size |-> l.compressed_image_size,
   compressed_image_base64 |-> l.compressed_image_base64, exc |-> l.exc,
   images |-> l.images, listing |-> l.listing, filename |-> l.filename,
   size_kb |-> l.size_kb]

CtlOf(f) ==
  [pc |-> f.pc, route |-> f.route, args |-> f.args, response |-> f.response,
   reads |-> f.reads, resizes |-> f.resizes, encodes |-> f.encodes,
   passed_quality |-> f.passed_quality]

LocalsOf(f) ==
  [start_time |-> f.start_time, end_time |-> f.end_time,
   image_name |-> f.image_name, target_dimension |-> f.target_dimension,
   image_path |-> f.image_path, result |-> f.result,
   max_size_kb |-> f.max_size_kb, image_data |-> f.image_data,
   image_size_kb |-> f.image_size_kb, quality |-> f.quality,
   c_image_data |-> f.c_image_data, current_size_kb |-> f.current_size_kb,
   resized_image |-> f.resized_image,
   compression_factor |-> f.compression_factor, c_quality |-> f.c_quality,
   compressed_image |-> f.compressed_image,
   compressed_image_size |-> f.compressed_image_size,
   compressed_image_base64 |-> f.compressed_image_base64, exc |-> f.exc,
   images |-> f.images, listing |-> f.listing, filename |-> f.filename,
   size_kb |-> f.size_kb]

\* An exception leaves the try block for the except clause of the view.
Raise(f, message) == [f EXCEPT !.pc = "except", !.exc = message]

Max(a, b) == IF a >= b THEN a ELSE b
Min(a, b) == IF a <= b THEN a ELSE b

(***************************************************************************)
(* get_compressed_image, step by step.                                     *)
(***************************************************************************)
\* start_time, image_name and the target dimension.
StepStart(f, now) ==
  LET f1 == [f EXCEPT !.start_time = now, !.image_name = f.args.image_name]
  IN  IF IntError(f.args.target_width) # <<>>
      THEN Raise(f1, IntError(f.args.target_width))
      ELSE IF IntError(f.args.target_height) # <<>>
           THEN Raise(f1, IntError(f.args.target_height))
           ELSE [f1 EXCEPT !.target_dimension =
                             <<f.args.target_width.n, f.args.target_height.n>>,
                           !.pc = "exists"]

\* The 404 result of a missing file: assigned, not returned.
NotFound(f, path, fs) ==
  IF ~PathExists(fs, path)
  THEN PyTuple([error |-> <<"Image ">> \o f.image_name.s \o <<" not found">>], 404)
  ELSE f.result

\* The target size read from the key target_size_kb instead.
TargetSizeArgRenamed(args) == args.target_size_kb

\* The key of the query string the target size is read from.
TargetSizeArg(args) == args.max_size_kb

\* image_path, the existence check and max_size_kb.
StepExists(f, fs) ==
  IF f.image_name.kind = "absent"
  THEN Raise(f, <<"expected str, bytes or os.PathLike object, not NoneType">>)
  ELSE LET path == PathJoin(ImagesDir, f.image_name.s)
           f1   == [f EXCEPT !.image_path = path, !.result = NotFound(f, path, fs)]
           m    == GetDefault(TargetSizeArg(f.args), 1024)
       IN  IF IntError(m) # <<>> THEN Raise(f1, IntError(m))
           ELSE [f1 EXCEPT !.max_size_kb = m.n, !.pc = "read1"]

\* get_image_data_size(image_path): <<image_data, image_size_kb>>.
get_image_data_size(fs, image_path) ==
  LET image_data == FileBytes(fs, image_path)
  IN  <<image_data, IntTrueDiv(image_data.len, 1024)>>

\* The result of an image already within the target size: assigned, not
\* returned.
AlreadySmall(f, data, size) ==
  IF FloatLeInt(size, f.max_size_kb)
  THEN PyDict([message |-> <<"Image size is already less than ">>
                             \o IntStr(f.max_size_kb) \o <<" KB">>,
               image_base64 |-> B64(data)])
  ELSE f.result

\* The view's read of the file with the size check returning its result
\* at once instead of falling through to the compression.
StepRead1Returning(f, fs) ==
  IF OpenError(fs, f.image_path) # <<>> THEN Raise(f, OpenError(fs, f.image_path))
  ELSE LET ds == get_image_data_size(fs, f.image_path)
           f1 == [f EXCEPT !.image_data = ds[1], !.image_size_kb = ds[2],
                           !.reads = @ + 1,
                           !.result = AlreadySmall(f, ds[1], ds[2])]
           q  == GetDefault(f.args.quality, 85)
       IN  IF FloatLeInt(ds[2], f.max_size_kb)
           THEN [f1 EXCEPT !.response = Jsonify(f1.result), !.pc = "done"]
           ELSE IF IntError(q) # <<>> THEN Raise(f1, IntError(q))
                ELSE [f1 EXCEPT !.quality = q.n, !.pc = "read2"]

\* The view's read of the file, the size check and quality.
StepRead1(f, fs) ==
  IF OpenError(fs, f.image_path) # <<>> THEN Raise(f, OpenError(fs, f.image_path))
  ELSE LET ds == get_image_data_size(fs, f.image_path)
           f1 == [f EXCEPT !.image_data = ds[1], !.image_size_kb = ds[2],
                           !.reads = @ + 1,
                           !.result = AlreadySmall(f, ds[1], ds[2])]
           q  == GetDefault(f.args.quality, 85)
       IN  IF IntError(q) # <<>> THEN Raise(f1, IntError(q))
           ELSE [f1 EXCEPT !.quality = q.n, !.pc = "read2"]

\* compress_image is entered: its own read of the file.
StepRead2(f, fs) ==
  IF OpenError(fs, f.image_path) # <<>> THEN Raise(f, OpenError(fs, f.image_path))
  ELSE LET ds == get_image_data_size(fs, f.image_path)
       IN  [f EXCEPT !.c_image_data = ds[1], !.current_size_kb = ds[2],
                     !.c_quality = f.quality, !.reads = @ + 1, !.pc = "resize"]

\* Image.open and resize.
StepResize(f) ==
  IF f.c_image_data.content = "corrupt"
  THEN Raise(f, <<"cannot identify image file <_io.BytesIO object>">>)
  ELSE IF f.target_dimension[1] <= 0 \/ f.target_dimension[2] <= 0
       THEN Raise(f, <<"height and width must be > 0">>)
       ELSE [f EXCEPT !.resized_image = [src  |-> f.c_image_data.id,
                                         mode |-> f.c_image_data.content,
                                         size |-> f.target_dimension],
                      !.resizes = @ + 1, !.pc = "estimate"]

\* compression_factor = (max_size_kb / current_size_kb) * 100
CompressionFactor(max_size_kb, current_size_kb) ==
  FloatMulInt(IntDivFloat(max_size_kb, current_size_kb), 100)

\* The adjusted quality without the division by 100.
AdjustQualityUnscaled(quality, compression_factor) ==
  FloatToInt(FloatMulInt(compression_factor, quality))

\* quality = int(quality * compression_factor / 100)
AdjustQuality(quality, compression_factor) ==
  FloatToInt(FloatDivInt(FloatMulInt(compression_factor, quality), 100))

\* The clamp without its lower end.
ClampQualityNoFloor(quality) == Min(quality, 95)

\* quality = max(1, min(quality, 95))
ClampQuality(quality) == Max(1, Min(quality, 95))

\* The quality estimate.
StepEstimate(f) ==
  IF IsZero(f.current_size_kb.m) THEN Raise(f, <<"float division by zero">>)
  ELSE LET cf == CompressionFactor(f.max_size_kb, f.current_size_kb)
       IN  [f EXCEPT !.compression_factor = cf,
                     !.c_quality = ClampQuality(AdjustQuality(f.c_quality, cf)),
                     !.pc = "encode"]

\* The length of the JPEG the encoder writes.  The encoder is a function
\* of the raster and the quality that this program does not control; codec
\* selects one such function.
JpegLen(codec, size, quality) == 128 * codec + size[1] * size[2] * quality

\* resized_image.save, the size of the buffer and its base64 text.
StepEncode(f, codec) ==
  IF f.resized_image.mode # "RGB"
  THEN Raise(f, <<"cannot write mode ", f.resized_image.mode, " as JPEG">>)
  ELSE LET buf == [id |-> <<"jpeg(">> \o f.resized_image.src \o <<",">>
                            \o IntStr(f.resized_image.size[1]) \o <<"x">>
                            \o IntStr(f.resized_image.size[2]) \o <<",q=">>
                            \o IntStr(f.c_quality) \o <<")">>,
                   len |-> JpegLen(codec, f.resized_image.size, f.c_quality),
                   content |-> "RGB"]
       IN  [f EXCEPT !.compressed_image = buf,
                     !.compressed_image_size = IntTrueDiv(buf.len, 1024),
                     !.compressed_image_base64 = B64(buf),
                     !.encodes = @ + 1, !.passed_quality = f.c_quality,
                     !.pc = "respond"]

\* The result of the view once compress_image has returned; the clock
\* counts milliseconds.
StepRespond(f, now) ==
  LET result ==
        PyTuple([time_elapsed |-> IntStr(now - f.start_time) \o <<" ms">>,
                 compressed_image_size |->
                   FormatFixed2(f.compressed_image_size) \o <<" KB">>,
                 compressed_image_base64 |-> f.compressed_image_base64], 200)
  IN  [f EXCEPT !.end_time = now, !.result = result,
                !.response = Jsonify(result), !.pc = "done"]

\* except Exception as e
StepExcept(f) ==
  LET result == PyTuple([error |-> <<"An error occured: ">> \o f.exc], 500)
  IN  [f EXCEPT !.result = result, !.response = Jsonify(result), !.pc = "done"]

(***************************************************************************)
(* get_images, step by step.                                               *)
(***************************************************************************)
ImageSuffixes ==
  {<<".", "j", "p", "g">>, <<".", "j", "p", "e", "g">>, <<".", "p", "n", "g">>}

\* The test on the name as stored, without lower().
IsImageNameCaseSensitive(filename) == \E suffix \in ImageSuffixes : EndsWith(filename, suffix)

\* filename.lower().endswith(('.jpg', '.jpeg', '.png'))
IsImageName(filename) == \E suffix \in ImageSuffixes : EndsWith(Lower(filename), suffix)

\* The error return of get_images.
ListFailed(f, message) ==
  [f EXCEPT !.exc = message, !.pc = "done",
            !.response =
              MakeResponse(PyTuple([error |-> <<"An error occured: ">> \o message], 500))]

\* images = [] and os.listdir("images")
StepListDir(f, fs) ==
  IF ~fs.present
  THEN ListFailed([f EXCEPT !.images = <<>>],
                  <<"[Errno 2] No such file or directory: 'images'">>)
  ELSE [f EXCEPT !.images = <<>>,
                 !.listing = [i \in 1..Len(fs.files) |-> fs.files[i].name],
                 !.pc = "list_next"]

\* One turn of the loop over the file names, or the return after the last.
StepListNext(f, fs) ==
  IF f.listing = <<>>
  THEN [f EXCEPT !.response = MakeResponse(PyList(f.images)), !.pc = "done"]
  ELSE LET filename == Head(f.listing)
           path     == PathJoin(ImagesDir, filename)
           f1       == [f EXCEPT !.filename = filename, !.listing = Tail(@)]
       IN  IF ~IsImageName(filename) THEN f1
           ELSE IF OpenError(fs, path) # <<>> THEN ListFailed(f1, OpenError(fs, path))
           ELSE LET kb == FloatToInt(IntTrueDiv(FileBytes(fs, path).len, 1024))
                IN  [f1 EXCEPT !.image_path = path, !.size_kb = kb,
                               !.images = Append(@, [image_name |-> filename,
                                                     image_size |-> IntStr(kb) \o <<" KB">>])]

(***************************************************************************)
(* A whole handler: its steps in program order, from the clock reading     *)
(* start to the clock reading end.                                         *)
(***************************************************************************)
Step(f, fs, codec, now) ==
  CASE f.pc = "start"     -> StepStart(f, now)
    [] f.pc = "exists"    -> StepExists(f, fs)
    [] f.pc = "read1"     -> StepRead1(f, fs)
    [] f.pc = "read2"     -> StepRead2(f, fs)
    [] f.pc = "resize"    -> StepResize(f)
    [] f.pc = "estimate"  -> StepEstimate(f)
    [] f.pc = "encode"    -> StepEncode(f, codec)
    [] f.pc = "respond"   -> StepRespond(f, now)
    [] f.pc = "except"    -> StepExcept(f)
    [] f.pc = "list_dir"  -> StepListDir(f, fs)
    [] f.pc = "list_next" -> StepListNext(f, fs)
    [] OTHER              -> f

\* The steps of a handler up to its last one, which reads the clock again.
RECURSIVE RunBody(_, _, _, _)
RunBody(f, fs, codec, start) ==
  IF f.pc \in {"done", "idle", "respond"} THEN f
  ELSE RunBody(Step(f, fs, codec, start), fs, codec, start)

Run(f, fs, codec, start, end) ==
  LET g == RunBody(f, fs, codec, start)
  IN  IF g.pc = "respond" THEN Step(g, fs, codec, end) ELSE g

(***************************************************************************)
(* The state: the image directory, the encoder installed, the clock, and   *)
(* for every request being served what Flask keeps for it (ctl) and the    *)
(* local variables of its view (locals).                                   *)
(***************************************************************************)
VARIABLES disk, codec, clock, ctl, locals

vars == <<disk, codec, clock, ctl, locals>>

\* Bounds of the model.
NumRequests == 2
MaxDim == 1
MaxTargetKb == 2
MaxFileHalfKb == 3
MaxCodec == 1
MaxElapsedMs == 1
MaxClock == 1

Slots == 1..NumRequests

Photo == <<"p", "h", "o", "t", "o", ".", "P", "N", "G">>
Notes == <<"n", "o", "t", "e", "s", ".", "t", "x", "t">>
Pic == <<"a", ".", "j", "p", "g">>
Empty == <<"e", ".", "J", "p", "e", "g">>
Missing == <<"m", ".", "j", "p", "g">>

\* A directory whose one JPEG has the given length.
Disk(len) ==
  [present |-> TRUE,
   files |-> <<File(Photo, 2048, "RGBA"), File(Notes, 9, "corrupt"),
               File(Pic, len, "RGB"), File(Empty, 0, "corrupt")>>]

\* No directory 'images' in the working directory.
NoDisk == [present |-> FALSE, files |-> <<>>]

Disks == {NoDisk} \cup {Disk(512 * k) : k \in 2..MaxFileHalfKb}

NotANumber == Text(<<"a", "b", "c">>)
NameArgs == {Absent} \cup {Text(n) : n \in {Missing, Pic, Photo, Empty, Notes}}
DimArgs == {Absent, NotANumber} \cup {Num(i) : i \in 0..MaxDim}
SizeArgs == {Absent, NotANumber} \cup {Num(i) : i \in (-1)..MaxTargetKb}
Qualities == {-5, 0, 3, 7, 85, 101}
QualityArgs == {Absent, NotANumber} \cup {Num(q) : q \in Qualities}

GoodDims == {Num(i) : i \in 1..MaxDim}

\* Requests that differ in the name and the dimensions: the view reads these
\* first, and a dimension it rejects ends the request before the other
\* arguments are looked at.
NamingRequests ==
  [route : {"/get_compressed_image"},
   args : [image_name : NameArgs, target_width : DimArgs, target_height : DimArgs,
           max_size_kb : {Absent}, target_size_kb : {Absent}, quality : {Absent}]]

\* Requests for a square raster that differ in the name, the target size and
\* the quality.
SizingRequests ==
  {[route |-> "/get_compressed_image",
    args |-> [image_name |-> n, target_width |-> d, target_height |-> d,
              max_size_kb |-> m, target_size_kb |-> t, quality |-> q]] :
     n \in NameArgs, d \in GoodDims, m \in SizeArgs,
     t \in {Absent, Num(MaxTargetKb)}, q \in QualityArgs}

CompressRequests == NamingRequests \cup SizingRequests

ListRequest == [route |-> "/get_images", args |-> NoArgs]

Requests == CompressRequests \cup {ListRequest}

\* The requests served concurrently.
ConcRequests ==
  {ListRequest}
  \cup [route : {"/get_compressed_image"},
        args : [image_name : {Text(Pic)}, target_width : {Num(MaxDim)},
                target_height : {Num(MaxDim)}, max_size_kb : {Num(1)},
                target_size_kb : {Absent}, quality : {Num(7)}]]
  \cup [route : {"/get_compressed_image"},
        args : [image_name : {Text(Pic), Text(Missing)}, target_width : {Num(MaxDim)},
                target_height : {Num(MaxDim)}, max_size_kb : {Absent},
                target_size_kb : {Absent}, quality : {Absent}]]

\* The local variables kept in one place for all calls, as module-level
\* variables would be.
FrameShared(r) == 1

\* Every call of a view has its own local variables.
Frame(r) == r

TypeOK ==
  /\ disk \in Disks
  /\ codec \in 1..MaxCodec
  /\ clock \in 0..MaxClock
  /\ DOMAIN ctl = Slots
  /\ DOMAIN locals = Slots

Init ==
  /\ disk \in Disks
  /\ codec \in 1..MaxCodec
  /\ clock = 0
  /\ ctl = [r \in Slots |-> IdleCtl]
  /\ locals = [r \in Slots |-> NewLocals]

\* The frame request r runs in, and the state once it has become g.
FrameAt(r) == FrameOf(ctl[r], locals[Frame(r)])

Becomes(r, g) ==
  /\ ctl' = [ctl EXCEPT ![r] = CtlOf(g)]
  /\ locals' = [locals EXCEPT ![Frame(r)] = LocalsOf(g)]

\* Flask dispatches a request to its view.
Request(r, req) ==
  /\ ctl[r].pc = "idle"
  /\ ctl' = [ctl EXCEPT ![r] =
               [IdleCtl EXCEPT !.pc = IF req.route = "/get_images"
                                      THEN "list_dir" ELSE "start",
                               !.route = req.route, !.args = req.args]]
  /\ locals' = [locals EXCEPT ![Frame(r)] = NewLocals]
  /\ UNCHANGED <<disk, codec, clock>>

\* GET /get_compressed_image, from its first line to its return.
GetCompressedImage(r) ==
  /\ ctl[r].pc = "start"
  /\ LET g == RunBody(FrameAt(r), disk, codec, clock)
     IN  \E elapsed \in 0..MaxElapsedMs :
           Becomes(r, Run(g, disk, codec, clock, clock + elapsed))
  /\ UNCHANGED <<disk, codec, clock>>

\* GET /get_images, from its first line to its return.
GetImages(r) ==
  /\ ctl[r].pc = "list_dir"
  /\ Becomes(r, Run(FrameAt(r), disk, codec, clock, clock))
  /\ UNCHANGED <<disk, codec, clock>>

\* Flask has sent the response; the frame of the call is gone.
Deliver(r) ==
  /\ ctl[r].pc = "done"
  /\ ctl' = [ctl EXCEPT ![r] = IdleCtl]
  /\ locals' = [locals EXCEPT ![Frame(r)] = NewLocals]
  /\ UNCHANGED <<disk, codec, clock>>

Next ==
  \/ \E req \in Requests : Request(1, req)
  \/ GetCompressedImage(1)
  \/ GetImages(1)
  \/ Deliver(1)

Spec == Init /\ [][Next]_vars

(***************************************************************************)
(* Concurrent service: Flask runs each request in a thread of its own, and *)
(* the threads take their steps in any order.                              *)
(***************************************************************************)
InitC ==
  /\ disk = Disk(512 * MaxFileHalfKb)
  /\ codec = MaxCodec
  /\ clock = 0
  /\ ctl = [r \in Slots |-> IdleCtl]
  /\ locals = [r \in Slots |-> NewLocals]

\* Request r takes the step its program counter is at.
Advance(r, pc) ==
  /\ ctl[r].pc = pc
  /\ Becomes(r, Step(FrameAt(r), disk, codec, clock))
  /\ UNCHANGED <<disk, codec, clock>>

Tick ==
  /\ clock < MaxClock
  /\ clock' = clock + 1
  /\ UNCHANGED <<disk, codec, ctl, locals>>

NextC ==
  \/ \E r \in Slots, req \in ConcRequests : Request(r, req)
  \/ \E r \in Slots : Advance(r, "start")
  \/ \E r \in Slots : Advance(r, "exists")
  \/ \E r \in Slots : Advance(r, "read1")
  \/ \E r \in Slots : Advance(r, "read2")
  \/ \E r \in Slots : Advance(r, "resize")
  \/ \E r \in Slots : Advance(r, "estimate")
  \/ \E r \in Slots : Advance(r, "encode")
  \/ \E r \in Slots : Advance(r, "respond")
  \/ \E r \in Slots : Advance(r, "except")
  \/ \E r \in Slots : Advance(r, "list_dir")
  \/ \E r \in Slots : Advance(r, "list_next")
  \/ Tick

SpecC == InitC /\ [][NextC]_vars

(***************************************************************************)
(* Properties.                                                             *)
(***************************************************************************)
Compress(r) == ctl[r].route = "/get_compressed_image" /\ ctl[r].pc = "done"
Listed(r) == ctl[r].route = "/get_images" /\ ctl[r].pc = "done"

IsInt(arg) == arg.kind = "int"
IntOrAbsent(arg) == arg.kind \in {"int", "absent"}

\* The file of the directory the request names, as a sequence of 0 or 1 file.
Named(r) ==
  IF ctl[r].args.image_name.kind = "absent" THEN <<>>
  ELSE Lookup(disk, PathJoin(ImagesDir, ctl[r].args.image_name.s))

\* The JSON object a response carries: its body, or the first member of the
\* array its body is.
Payload(response) ==
  IF response.body.kind = "object" THEN response.body.obj
  ELSE IF response.body.kind = "array" /\ response.body.items # <<>>
       THEN response.body.items[1].obj
       ELSE NoDict

\* The value of an optional integer argument, or its default.
ArgValue(arg, default) == IF arg.kind = "int" THEN arg.n ELSE default

ErrorBody(message) == JObject([error |-> <<"An error occured: ">> \o message])

\* C1: a request for a file that is not in the image directory, with integer
\* target_width and target_height, is answered with status 404 and the body
\* {"error": "Image <image_name> not found"}, and nothing is read or encoded.
C1_MissingFileIs404 ==
  \A r \in Slots :
    (/\ Compress(r)
     /\ ctl[r].args.image_name.kind = "text"
     /\ Named(r) = <<>>
     /\ IsInt(ctl[r].args.target_width)
     /\ IsInt(ctl[r].args.target_height))
    => /\ ctl[r].response.status = 404
       /\ ctl[r].response.body =
            JObject([error |-> <<"Image ">> \o ctl[r].args.image_name.s \o <<" not found">>])
       /\ ctl[r].reads = 0
       /\ ctl[r].encodes = 0

\* C2: a request in which a step raises is answered with status 500 and the
\* body {"error": "An error occured: <exception message>"}.
C2_RaiseIs500 ==
  \A r \in Slots :
    (Compress(r) /\ locals[Frame(r)].exc # <<>>)
    => /\ ctl[r].response.status = 500
       /\ ctl[r].response.body = ErrorBody(locals[Frame(r)].exc)

\* C3: a request on an existing, decodable image with valid integer
\* parameters is answered with status 200 and a body that is one JSON object
\* with exactly the fields time_elapsed ("<int> ms"), compressed_image_size
\* (the length of the encoded buffer over 1024, two decimals, " KB") and
\* compressed_image_base64 (the base64 text of the encoded buffer).
C3_SuccessIsOneObject ==
  \A r \in Slots :
    (/\ Compress(r)
     /\ Named(r) # <<>>
     /\ Named(r)[1].content # "corrupt"
     /\ IsInt(ctl[r].args.target_width) /\ ctl[r].args.target_width.n >= 1
     /\ IsInt(ctl[r].args.target_height) /\ ctl[r].args.target_height.n >= 1
     /\ ArgValue(ctl[r].args.max_size_kb, 1024) >= 1
     /\ ctl[r].args.max_size_kb.kind # "text"
     /\ ArgValue(ctl[r].args.quality, 85) \in 1..100
     /\ ctl[r].args.quality.kind # "text")
    => /\ ctl[r].response.status = 200
       /\ ctl[r].response.body.kind = "object"
       /\ DOMAIN ctl[r].response.body.obj =
            {"time_elapsed", "compressed_image_size", "compressed_image_base64"}
       /\ ctl[r].response.body.obj.time_elapsed =
            IntStr(locals[Frame(r)].end_time - locals[Frame(r)].start_time) \o <<" ms">>
       /\ ctl[r].response.body.obj.compressed_image_size =
            FormatFixed2(IntTrueDiv(locals[Frame(r)].compressed_image.len, 1024)) \o <<" KB">>
       /\ ctl[r].response.body.obj.compressed_image_base64 =
            B64(locals[Frame(r)].compressed_image)

\* C4: whatever the target size (zero, negative or above the original) and
\* the base quality, the quality handed to the JPEG encoder is an integer
\* from 1 to 95.
C4_QualityInRange ==
  \A r \in Slots : ctl[r].encodes > 0 => ctl[r].passed_quality \in 1..95

\* An encode whose target size is not positive: the quality is raised to 1.
C4_Witness ==
  \E r \in Slots :
    /\ Compress(r)
    /\ ctl[r].encodes = 1
    /\ locals[Frame(r)].max_size_kb <= 0
    /\ ctl[r].passed_quality = 1

\* The case C5 is about: an encode of a file of more than 0 bytes with a
\* positive target size and a base quality from 1 to 100.
C5_Case(r) ==
  /\ Compress(r)
  /\ ctl[r].encodes > 0
  /\ locals[Frame(r)].c_image_data.len > 0
  /\ locals[Frame(r)].max_size_kb > 0
  /\ locals[Frame(r)].quality \in 1..100

\* base_quality * target_size_kb / original_size_kb as the fraction
\* <<numerator, denominator>>, sizes in bytes.
C5_Exact(r) ==
  <<locals[Frame(r)].quality * locals[Frame(r)].max_size_kb * 1024,
    locals[Frame(r)].c_image_data.len>>

C5_Clamp(q) == IF q < 1 THEN 1 ELSE IF q > 95 THEN 95 ELSE q

\* C5 as the specification states it: the quality used is
\* clamp(round(base_quality * target_size_kb / original_size_kb), 1, 95),
\* round being rounding to the nearest integer (either neighbour on a tie).
C5_RoundedToNearest ==
  \A r \in Slots :
    C5_Case(r) =>
      LET n == C5_Exact(r)[1]
          d == C5_Exact(r)[2]
      IN  \E k \in {n \div d, (n \div d) + 1} :
            /\ 2 * Abs(k * d - n) <= d
            /\ ctl[r].passed_quality = C5_Clamp(k)

\* C5 as amended: the quality used is the clamped truncation of the product;
\* a product that is an integer n in exact arithmetic gives n or n - 1,
\* because the double-precision result may fall just below n; a target equal
\* to the original size with base quality 85 gives 85.
C5_Truncated ==
  \A r \in Slots :
    C5_Case(r) =>
      LET n == C5_Exact(r)[1]
          d == C5_Exact(r)[2]
      IN  /\ n % d # 0 => ctl[r].passed_quality = C5_Clamp(n \div d)
          /\ n % d = 0 => ctl[r].passed_quality
                            \in {C5_Clamp(n \div d), C5_Clamp((n \div d) - 1)}
          /\ (locals[Frame(r)].max_size_kb * 1024 = d /\ locals[Frame(r)].quality = 85)
               => ctl[r].passed_quality = 85

\* An encode whose exact product 7 * 1024 / 1536 = 4.67 is truncated to 4.
C5_Witness ==
  \E r \in Slots :
    /\ C5_Case(r)
    /\ locals[Frame(r)].quality = 7
    /\ locals[Frame(r)].max_size_kb = 1
    /\ locals[Frame(r)].c_image_data.len = 1536
    /\ ctl[r].passed_quality = 4

\* C6 as the specification states it: the target size is the query parameter
\* target_size_kb, 1024 when absent, and the base quality is the query
\* parameter quality, 85 when absent.
C6_TargetSizeKbIsRead ==
  \A r \in Slots :
    (Compress(r) /\ ctl[r].reads = 2)
    => /\ locals[Frame(r)].max_size_kb = ArgValue(ctl[r].args.target_size_kb, 1024)
       /\ locals[Frame(r)].quality = ArgValue(ctl[r].args.quality, 85)

\* C6 as amended: the target size is the query parameter max_size_kb, 1024
\* when absent, whatever target_size_kb is; the base quality is the query
\* parameter quality, 85 when absent.
C6_MaxSizeKbIsRead ==
  \A r \in Slots :
    (Compress(r) /\ ctl[r].reads = 2)
    => /\ locals[Frame(r)].max_size_kb = ArgValue(ctl[r].args.max_size_kb, 1024)
       /\ locals[Frame(r)].quality = ArgValue(ctl[r].args.quality, 85)

\* A request that supplies target_size_kb only and runs with target 1024.
C6_Witness ==
  \E r \in Slots :
    /\ Compress(r)
    /\ ctl[r].reads = 2
    /\ ctl[r].args.target_size_kb.kind = "int"
    /\ ctl[r].args.max_size_kb.kind = "absent"
    /\ locals[Frame(r)].max_size_kb = 1024

\* Two characters that differ in case at most.
C7_SameLetter(a, b) ==
  a = b \/ \E i \in 1..Len(UpperChars) : {a, b} = {UpperChars[i], LowerChars[i]}

\* The name ends, whatever its case, in .jpg, .jpeg or .png.
C7_Matches(name) ==
  \E ext \in {<<".", "j", "p", "g">>, <<".", "j", "p", "e", "g">>, <<".", "p", "n", "g">>} :
    /\ Len(name) >= Len(ext)
    /\ \A i \in 1..Len(ext) : C7_SameLetter(name[Len(name) - Len(ext) + i], ext[i])

C7_Entry(file) ==
  JObject([image_name |-> file.name,
           image_size |-> IntStr(file.len \div 1024) \o <<" KB">>])

\* C7: /get_images answers 200 with exactly one entry {image_name,
\* image_size: "<floor(bytes / 1024)> KB"} per file whose name ends, whatever
\* its case, in .jpg, .jpeg or .png, and no other entry; when the directory
\* cannot be listed it answers 500 with an {error: ...} body.
C7_Listing ==
  \A r \in Slots :
    Listed(r) =>
      IF disk.present
      THEN /\ ctl[r].response.status = 200
           /\ ctl[r].response.body.kind = "array"
           /\ \A i \in 1..Len(disk.files) :
                Cardinality({j \in 1..Len(ctl[r].response.body.items) :
                               ctl[r].response.body.items[j] = C7_Entry(disk.files[i])})
                  = IF C7_Matches(disk.files[i].name) THEN 1 ELSE 0
           /\ Len(ctl[r].response.body.items)
                = Cardinality({i \in 1..Len(disk.files) : C7_Matches(disk.files[i].name)})
      ELSE /\ ctl[r].response.status = 500
           /\ ctl[r].response.body.kind = "object"
           /\ DOMAIN ctl[r].response.body.obj = {"error"}

\* A listing of a directory with files that match in upper case and a file
\* that does not match.
C7_Witness ==
  \E r \in Slots :
    /\ Listed(r)
    /\ disk.present
    /\ Len(ctl[r].response.body.items) = 3
    /\ Len(disk.files) = 4

\* A response with the time it reports blanked.
C8_Timeless(response) ==
  IF "time_elapsed" \in DOMAIN Payload(response)
  THEN [response EXCEPT !.body.items[1].obj.time_elapsed = <<>>]
  ELSE response

\* The response of the request of r when nothing else runs.
C8_Alone(r) ==
  Run(FrameOf([IdleCtl EXCEPT !.pc = IF ctl[r].route = "/get_images"
                                     THEN "list_dir" ELSE "start",
                              !.route = ctl[r].route, !.args = ctl[r].args],
              NewLocals),
      disk, codec, 0, 0).response

\* C8: with the directory unchanged and the steps of the requests
\* interleaved in any order, the response of each request, the elapsed time
\* apart, is the response the request gets when it runs alone.
C8_Isolation ==
  \A r \in Slots :
    ctl[r].pc = "done" => C8_Timeless(ctl[r].response) = C8_Timeless(C8_Alone(r))

\* Two requests in flight over the same tick of the clock: one began before
\* the tick and has answered after it, the other began before it and has
\* not answered yet.
C8_Witness ==
  \E r1, r2 \in Slots :
    /\ r1 # r2
    /\ Compress(r1)
    /\ ctl[r1].encodes = 1
    /\ locals[Frame(r1)].start_time = 0
    /\ locals[Frame(r1)].end_time = 1
    /\ ctl[r2].pc = "encode"
    /\ locals[Frame(r2)].start_time = 0
    /\ ctl[r1].args # ctl[r2].args

\* C9: a request that ends without an exception has made exactly one resize
\* and one encode and answers with that encode's output, also when the file
\* is already within the target size: never the bytes of the file, never the
\* "Image size is already less than ..." message.
C9_OneResizeOneEncode ==
  \A r \in Slots :
    (Compress(r) /\ locals[Frame(r)].exc = <<>>)
    => /\ ctl[r].resizes = 1
       /\ ctl[r].encodes = 1
       /\ DOMAIN Payload(ctl[r].response) =
            {"time_elapsed", "compressed_image_size", "compressed_image_base64"}
       /\ Payload(ctl[r].response).compressed_image_base64
            = B64(locals[Frame(r)].compressed_image)
       /\ Payload(ctl[r].response).compressed_image_base64
            # B64(locals[Frame(r)].image_data)
       /\ locals[Frame(r)].compressed_image.content = "RGB"
       /\ locals[Frame(r)].compressed_image.id # locals[Frame(r)].image_data.id

\* A request that ends without an exception on a file of exactly the target
\* size.
C9_Witness ==
  \E r \in Slots :
    /\ Compress(r)
    /\ locals[Frame(r)].exc = <<>>
    /\ ctl[r].encodes = 1
    /\ locals[Frame(r)].image_data.len = 1024 * locals[Frame(r)].max_size_kb

\* C10: a request with valid arguments naming an existing file of 0 bytes ends in the generic
\* error response, status 500 and body {"error": "An error occured:
\* <message>"}, never in a success, and no quality is handed to the encoder.
C10_EmptyFileIs500 ==
  \A r \in Slots :
    (/\ Compress(r)
     /\ Named(r) # <<>>
     /\ Named(r)[1].len = 0
     /\ IsInt(ctl[r].args.target_width) /\ ctl[r].args.target_width.n >= 1
     /\ IsInt(ctl[r].args.target_height) /\ ctl[r].args.target_height.n >= 1
     /\ ctl[r].args.max_size_kb.kind # "text"
     /\ ctl[r].args.quality.kind # "text")
    => /\ ctl[r].response.status = 500
       /\ ctl[r].response.body = ErrorBody(locals[Frame(r)].exc)
       /\ locals[Frame(r)].exc # <<>>
       /\ ctl[r].encodes = 0

====
